---- MODULE Spec2Model ----
\* funButton: the toy (collection) list, its persistence in IndexedDB, the
\* JSON backup import/export, the button editor, the decoded-audio cache, the
\* microphone recorder and the trimming of a recording, modelled from
\* src/src/App.tsx, src/src/utils/storage.ts and the audio utilities.
EXTENDS Integers, Sequences, FiniteSets, TLC

\* ------------------------------------------------------------------ bounds
\* user gestures (clicks, file choices, page loads) per run of the model; the
\* gestures bound the toys, the ids, the saves in flight and the clock
MaxOps == 2
\* clicks on the record / stop controls per run of the recorder
MaxTaps == 3
\* samples per channel of a recorded buffer
Frames == 4

\* ------------------------------------------------------- JavaScript values
\* the values undefined and null of an optional string field
Undefined == "undefined"
Null == "null"
\* x || d on a string field: undefined, null and "" are falsy
OrElse(x, d) == IF x \in {Undefined, Null, ""} THEN d ELSE x

\* an optional object is a sequence of length 0 (null / absent) or 1
None == <<>>
Some(x) == <<x>>

default_toy_name == "Toy"

NoSettings == [caseColor |-> "yellow", titleColor |-> Undefined,
               soundType |-> Undefined, glowType |-> Undefined]

\* a button without sound, image or text colour (audioUrl 0: no handle)
Key(id, text, color) ==
    [id |-> id, text |-> text, color |-> color, audioUrl |-> 0, imageUrl |-> 0,
     textColor |-> Undefined]

KEYPAD_CONFIG ==
    << Key("btn_answer", "answer", "white"), Key("btn_eyes", "eyes", "yellow"),
       Key("btn_why", "why", "yellow"), Key("btn_ah", "ah", "white") >>

DefaultToys ==
    << [id |-> "toy_default", name |-> default_toy_name, settings |-> NoSettings,
        buttons |-> KEYPAD_CONFIG] >>

\* the blob of an uploaded sound file
WavBlob == [type |-> "audio/wav", data |-> 1]
\* another sound file, and a file that is no audio (decodeAudioData rejects it)
Mp3Blob == [type |-> "audio/mpeg", data |-> 2]
TextBlob == [type |-> "text/plain", data |-> 3]

VARIABLES
    toys,          \* useState toys: the collection list
    activeToyId,   \* useState activeToyId
    isLoaded,      \* useState isLoaded
    db,            \* the IndexedDB record under DB_KEY: None or Some(stored state)
    saves,         \* stored states whose idb set() has not landed yet
    blobs,         \* the session's object URLs: handle h refers to blobs[h]
    now,           \* Date.now()
    stamped,       \* an id has been made from the current value of now
    imp,           \* the import whose file is being read: None or Some(..)
    ops,           \* user gestures made so far
    draws,         \* strings Math.random() has given so far
    last,          \* the last step taken, with its argument and outcome
    unfetchable,   \* object URLs whose fetch() rejects
    download,      \* the backup file the last export handed to the browser
    syncs,         \* the syncAudio runs suspended at an await
    audioBuffers,  \* audioBuffersRef.current: button id -> decoded buffer
    lastUrls,      \* lastUrlsRef.current: button id -> handle last decoded
    recordingId,   \* useState recordingId
    audioLevel,    \* useState audioLevel (0, or 1 for any level above 0)
    pendingRecording, \* useState pendingRecording: None or Some(..)
    mediaRecorderRef, \* mediaRecorderRef.current: 0 (null) or a recorder
    recorders,     \* the MediaRecorders made so far, each with its stream
    audioChunksRef, \* audioChunksRef.current
    analyserRef,   \* analyserRef.current: 0 (null) or the recorder it meters
    starting,      \* startRecording calls waiting for getUserMedia
    toast,         \* useState toast: None or Some(message)
    loadFailed,    \* the read of the record in the load effect has rejected
    imageJobs,     \* handleImageUpload calls whose canvas.toBlob has not called back
    processing,    \* the savePendingRecording call that is at its awaits: None or Some(..)
    trimmed        \* the last call of trimAndNormalize: None or Some([input, output])

\* the environment of save and export, the audio cache, the recorder, the
\* browser's work in flight for the load, an image and a recording
envVars == <<unfetchable, download>>
cacheVars == <<syncs, audioBuffers, lastUrls>>
recVars == <<recordingId, audioLevel, pendingRecording, mediaRecorderRef, recorders,
             audioChunksRef, analyserRef, starting, toast>>
jobVars == <<loadFailed, imageJobs, processing, trimmed>>

vars == <<toys, activeToyId, isLoaded, db, saves, blobs, now, stamped, imp, ops, draws,
          last, envVars, cacheVars, recVars, jobVars>>

\* ------------------------------------------------------------ list helpers
RECURSIVE Filter(_, _)
\* toys.filter(t => t.id !== id)
Filter(s, id) ==
    IF s = <<>> THEN <<>>
    ELSE IF Head(s).id = id THEN Filter(Tail(s), id)
         ELSE <<Head(s)>> \o Filter(Tail(s), id)

RECURSIVE SumSeq(_)
SumSeq(s) == IF s = <<>> THEN 0 ELSE Head(s) + SumSeq(Tail(s))

Ids(s) == {s[i].id : i \in DOMAIN s}

\* render: activeToy = toys.find(t => t.id === activeToyId) || toys[0]
activeToy ==
    IF \E i \in DOMAIN toys : toys[i].id = activeToyId
    THEN toys[CHOOSE i \in DOMAIN toys :
                 /\ toys[i].id = activeToyId
                 /\ \A j \in DOMAIN toys : toys[j].id = activeToyId => i <= j]
    ELSE toys[1]

\* render throws on activeToy.buttons when the list is empty: the app is gone
Crashed == toys = <<>>

\* render: buttons = activeToy.buttons
buttons == IF Crashed THEN <<>> ELSE activeToy.buttons

\* ----------------------------------------------------------- the blob store
RECURSIVE Flat(_)
\* the concatenation of a sequence of sequences
Flat(ss) == IF ss = <<>> THEN <<>> ELSE Head(ss) \o Flat(Tail(ss))

\* FetchBlob where one failed fetch makes the others fail too
FetchBlobAnyLost(B, h, lost) == IF h \in DOMAIN B /\ lost = {} THEN Some(B[h]) ELSE None

\* fetch(url).blob(): the blob behind a handle, None when the fetch throws
\* (an unknown handle, or one of the handles in lost)
FetchBlob(B, h, lost) == IF h \in DOMAIN B /\ h \notin lost THEN Some(B[h]) ELSE None

\* the blobs of one button that get an object URL, in creation order
ButtonBlobs(b) == b.audioBlob \o b.imageBlob
ToyBlobs(t) == Flat([j \in DOMAIN t.buttons |-> ButtonBlobs(t.buttons[j])])
AllBlobs(ts) == Flat([i \in DOMAIN ts |-> ToyBlobs(ts[i])])

\* object URLs minted before button j of toy i is reached
MintedBefore(ts, i, j) ==
    Len(AllBlobs(SubSeq(ts, 1, i - 1)))
      + Len(Flat([k \in 1..(j - 1) |-> ButtonBlobs(ts[i].buttons[k])]))

\* blob ? URL.createObjectURL(blob) : null, the next free handle being n
UrlOf(o, n) == IF o = None THEN 0 ELSE n

\* ------------------------------------------------- saveGlobalState / load
\* StoredKey with the text left out of the stored button
StoredKeyMissingText(btn, B, lost) ==
    [id |-> btn.id, text |-> "", color |-> btn.color,
     audioBlob |-> IF btn.audioUrl # 0 THEN FetchBlob(B, btn.audioUrl, lost) ELSE None,
     imageBlob |-> IF btn.imageUrl # 0 THEN FetchBlob(B, btn.imageUrl, lost) ELSE None,
     textColor |-> btn.textColor]

StoredKey(btn, B, lost) ==
    [id |-> btn.id, text |-> btn.text, color |-> btn.color,
     audioBlob |-> IF btn.audioUrl # 0 THEN FetchBlob(B, btn.audioUrl, lost) ELSE None,
     imageBlob |-> IF btn.imageUrl # 0 THEN FetchBlob(B, btn.imageUrl, lost) ELSE None,
     textColor |-> btn.textColor]

StoredToy(toy, B, lost) ==
    [toy EXCEPT !.buttons = [j \in DOMAIN toy.buttons |-> StoredKey(toy.buttons[j], B, lost)]]

\* the record saveGlobalState hands to set(DB_KEY, ..)
saveGlobalState(state, B, lost) ==
    [toys |-> [i \in DOMAIN state.toys |-> StoredToy(state.toys[i], B, lost)],
     activeToyId |-> state.activeToyId]

LoadedKey(btn, n) ==
    [id |-> btn.id, text |-> btn.text, color |-> btn.color,
     audioUrl |-> UrlOf(btn.audioBlob, n + 1),
     imageUrl |-> UrlOf(btn.imageBlob, n + Len(btn.audioBlob) + 1),
     textColor |-> btn.textColor]

LoadedToys(st, B) ==
    [i \in DOMAIN st |->
        [st[i] EXCEPT !.buttons =
            [j \in DOMAIN st[i].buttons |->
                LoadedKey(st[i].buttons[j], Len(B) + MintedBefore(st, i, j))]]]

\* loadGlobalState on the record data (None: no record), B the session's URLs;
\* the result holds the state (None for null) and the URLs after the call
loadGlobalState(data, B) ==
    IF data = None THEN [state |-> None, blobs |-> B]
    ELSE [state |-> Some([toys |-> LoadedToys(data[1].toys, B),
                          activeToyId |-> data[1].activeToyId]),
          blobs |-> B \o AllBlobs(data[1].toys)]

\* ------------------------------------------------------ export (the backup)
\* btoa / atob on the bytes of a blob (the bytes are one small number here)
B64Enc(n) == "b64_" \o ToString(n)
B64Dec(s) == CHOOSE n \in 0..9 : B64Enc(n) = s

\* FileReader.readAsDataURL: "data:<mime>;base64,<payload>"
blobToBase64(blob) == [mime |-> blob.type, b64 |-> B64Enc(blob.data)]

\* split(';base64,'), the type after "data:" or 'audio/webm', atob
base64ToBlob(d) ==
    [type |-> IF d.mime = "" THEN "audio/webm" ELSE d.mime, data |-> B64Dec(d.b64)]

\* fetch + blobToBase64 inside try/catch: None (null) when either throws
Base64Of(B, h, lost) ==
    IF h = 0 THEN None
    ELSE IF FetchBlob(B, h, lost) = None THEN None
         ELSE Some(blobToBase64(FetchBlob(B, h, lost)[1]))

ExportKey(btn, B, lost) ==
    [id |-> btn.id, text |-> btn.text, color |-> btn.color,
     audioBase64 |-> Base64Of(B, btn.audioUrl, lost),
     imageBase64 |-> Base64Of(B, btn.imageUrl, lost),
     textColor |-> btn.textColor]

\* { ...toy, buttons } as it reads back from JSON
processToyForExport(toy, B, lost) ==
    [id |-> toy.id, name |-> toy.name, settings |-> Some(toy.settings),
     buttons |-> Some([j \in DOMAIN toy.buttons |-> ExportKey(toy.buttons[j], B, lost)])]

\* the parsed JSON document: type, toy (single), toys (full), activeToyId;
\* a field that is missing from the JSON is None, or Undefined for a string
exportAllData(state, B, lost) ==
    [type |-> "full_backup", toy |-> None,
     toys |-> Some([i \in DOMAIN state.toys |-> processToyForExport(state.toys[i], B, lost)]),
     activeToyId |-> state.activeToyId]

exportSingleToy(toy, B, lost) ==
    [type |-> "single_toy", toy |-> Some(processToyForExport(toy, B, lost)),
     toys |-> None, activeToyId |-> Undefined]

\* ------------------------------------------------------------- importData
\* toy.buttons || []
DocButtons(toy) == IF toy.buttons = None THEN <<>> ELSE toy.buttons[1]

\* the blobs base64ToBlob builds for one button of the file
DecodedKey(btn) ==
    [audioBlob |-> IF btn.audioBase64 = None THEN None
                   ELSE Some(base64ToBlob(btn.audioBase64[1])),
     imageBlob |-> IF btn.imageBase64 = None THEN None
                   ELSE Some(base64ToBlob(btn.imageBase64[1]))]

DecodedToys(ds) ==
    [i \in DOMAIN ds |->
        [buttons |-> [j \in DOMAIN DocButtons(ds[i]) |-> DecodedKey(DocButtons(ds[i])[j])]]]

\* ids drawn before toy i of the file is restored (one per toy, one per button)
DrawsBefore(ds, i) == SumSeq([k \in 1..(i - 1) |-> 1 + Len(DocButtons(ds[k]))])
Draws(ds) == DrawsBefore(ds, Len(ds) + 1)

\* `toy_${Date.now()}_${Math.random().toString(36).substr(2, 9)}`
NewId(prefix, t, r) == prefix \o "_" \o ToString(t) \o "_" \o r

RestoreKey(btn, blobsOf, t, r, n) ==
    [id |-> NewId("btn", t, r), text |-> OrElse(btn.text, ""),
     color |-> OrElse(btn.color, "white"),
     audioUrl |-> UrlOf(blobsOf.audioBlob, n + 1),
     imageUrl |-> UrlOf(blobsOf.imageBlob, n + Len(blobsOf.audioBlob) + 1),
     textColor |-> OrElse(btn.textColor, Null)]

\* restoreToy on toy i of the file's list ds: t is Date.now(), rnd[k] the k-th
\* string Math.random() gives during the import, B the URLs minted before it
restoreToy(ds, i, t, rnd, B) ==
    [id |-> NewId("toy", t, rnd[DrawsBefore(ds, i) + 1]),
     name |-> OrElse(ds[i].name, "Restored Toy"),
     settings |-> IF ds[i].settings = None
                  THEN [NoSettings EXCEPT !.caseColor = "yellow"]
                  ELSE ds[i].settings[1],
     buttons |-> [j \in DOMAIN DocButtons(ds[i]) |->
                    RestoreKey(DocButtons(ds[i])[j], DecodedToys(ds)[i].buttons[j], t,
                               rnd[DrawsBefore(ds, i) + 1 + j],
                               Len(B) + MintedBefore(DecodedToys(ds), i, j))]]

RestoredToys(ds, t, rnd, B) == [i \in DOMAIN ds |-> restoreToy(ds, i, t, rnd, B)]

\* data.type === 'single_toy' && data.toy
IsSingle(data) == data.type = "single_toy" /\ data.toy # None

\* IsFull taking a missing toys array for an empty one (data.toys || [])
IsFullLenient(data) == TRUE

\* data.toys && Array.isArray(data.toys)
IsFull(data) == data.toys # None

\* the toys array of the document
FileToys(data) == IF data.toys = None THEN <<>> ELSE data.toys[1]

\* importSingle with the new toy put first
importSinglePrepends(currentToys, newToy) ==
    [toys |-> <<newToy>> \o currentToys, activeToyId |-> newToy.id]

\* { toys: [...currentToys, newToy], activeToyId: newToy.id }
importSingle(currentToys, newToy) ==
    [toys |-> currentToys \o <<newToy>>, activeToyId |-> newToy.id]

\* importFull keeping the current toys in front of the restored ones
importFullAppends(data, currentToys, restoredToys) ==
    [toys |-> currentToys \o restoredToys,
     activeToyId |->
         OrElse(data.activeToyId,
                IF restoredToys = <<>> THEN "toy_default" ELSE restoredToys[1].id)]

\* { toys: restoredToys,
\*   activeToyId: data.activeToyId || restoredToys[0]?.id || 'toy_default' }
importFull(data, currentToys, restoredToys) ==
    [toys |-> restoredToys,
     activeToyId |->
         OrElse(data.activeToyId,
                IF restoredToys = <<>> THEN "toy_default" ELSE restoredToys[1].id)]

\* importData(jsonContent, currentToys): ok FALSE is the thrown Error; blobs
\* are the object URLs after the call
importData(data, currentToys, t, rnd, B) ==
    IF IsSingle(data)
    THEN [ok |-> TRUE,
          state |-> importSingle(currentToys, restoreToy(data.toy, 1, t, rnd, B)),
          blobs |-> B \o AllBlobs(DecodedToys(data.toy))]
    ELSE IF IsFull(data)
    THEN [ok |-> TRUE,
          state |-> importFull(data, currentToys, RestoredToys(FileToys(data), t, rnd, B)),
          blobs |-> B \o AllBlobs(DecodedToys(FileToys(data)))]
    ELSE [ok |-> FALSE, state |-> None, blobs |-> B]

\* ------------------------------------------------------- backup documents
SoundUrl == [mime |-> "audio/wav", b64 |-> B64Enc(1)]
\* a data URL with no media type: "data:;base64,.."
BareUrl == [mime |-> "", b64 |-> B64Enc(2)]

DocKey(id, text, color, audio, image) ==
    [id |-> id, text |-> text, color |-> color, audioBase64 |-> audio,
     imageBase64 |-> image, textColor |-> Undefined]

\* a single-toy backup of another installation: no name, no settings
ForeignSingle ==
    [type |-> "single_toy",
     toy |-> Some([id |-> "toy_default", name |-> Undefined, settings |-> None,
                   buttons |-> Some(<< DocKey("btn_7", "moo", "red", Some(SoundUrl), None),
                                       DocKey("btn_8", "", Undefined, None, Some(BareUrl)) >>)]),
     toys |-> None, activeToyId |-> Undefined]

\* a full backup of another installation that names no active toy, its second
\* toy without buttons
ForeignFull ==
    [type |-> "full_backup", toy |-> None,
     toys |-> Some(<< [id |-> "toy_7", name |-> "Farm", settings |-> Some(NoSettings),
                       buttons |-> Some(<< DocKey("btn_7", "moo", "red", Some(SoundUrl), None) >>)],
                      [id |-> "toy_8", name |-> "", settings |-> None, buttons |-> None] >>),
     activeToyId |-> Undefined]

\* a full backup whose toys array is empty
EmptyFull == [type |-> "full_backup", toy |-> None, toys |-> Some(<<>>),
              activeToyId |-> Undefined]

\* a document without toy and without toys
NoToysFull == [type |-> "full_backup", toy |-> None, toys |-> None,
               activeToyId |-> "toy_7"]

\* a toy field under a type that is not single_toy, and no toys
WrongTypeSingle == [ForeignSingle EXCEPT !.type = "full_backup"]

SampleDocs ==
    {ForeignSingle, ForeignFull, EmptyFull, NoToysFull, WrongTypeSingle}

\* the toys a document would restore
DocToys(doc) == IF IsSingle(doc) THEN doc.toy ELSE FileToys(doc)

\* Math.random() during one import that draws n strings after d earlier draws:
\* either every draw gives a string never given before, or the generator
\* repeats itself and every draw of the import gives the same string
RandomRun(n, d, repeat) == [k \in 1..n |-> ToString(IF repeat THEN d + 1 ELSE d + k)]
RandomRuns(n, d) == {RandomRun(n, d, repeat) : repeat \in BOOLEAN}

\* ------------------------------------------------------------------- steps
Step(op, arg, ok) == [op |-> op, arg |-> arg, ok |-> ok]

\* SaveEffect without the test of isLoaded
SaveEffectBeforeLoad(loaded, ts, a, B) ==
    IF ts # <<>>
    THEN saves \cup {saveGlobalState([toys |-> ts, activeToyId |-> a], B, unfetchable)}
    ELSE saves

\* the save effect: a render with isLoaded starts saveGlobalState({toys, activeToyId})
SaveEffect(loaded, ts, a, B) ==
    IF loaded /\ ts # <<>>
    THEN saves \cup {saveGlobalState([toys |-> ts, activeToyId |-> a], B, unfetchable)}
    ELSE saves

\* useRef({}): a map from button ids that has no entry yet
NoEntries == [id \in {} |-> 0]

\* a user gesture is taken while the app is up; the gestures are bounded
CanAct == ~Crashed /\ ops < MaxOps

Init ==
    /\ toys = DefaultToys
    /\ activeToyId = "toy_default"
    /\ isLoaded = FALSE
    /\ db = None
    /\ saves = {}
    /\ blobs = <<>>
    /\ now = 0
    /\ stamped = FALSE
    /\ imp = None
    /\ ops = 0
    /\ draws = 0
    /\ last = Step("init", "", TRUE)
    /\ unfetchable = {}
    /\ download = None
    /\ syncs = <<>>
    /\ audioBuffers = NoEntries
    /\ lastUrls = NoEntries
    /\ recordingId = Null
    /\ audioLevel = 0
    /\ pendingRecording = None
    /\ mediaRecorderRef = 0
    /\ recorders = <<>>
    /\ audioChunksRef = <<>>
    /\ analyserRef = 0
    /\ starting = <<>>
    /\ toast = None
    /\ loadFailed = FALSE
    /\ imageJobs = <<>>
    /\ processing = None
    /\ trimmed = None

\* the clock moves on; its value shows in the ids alone, so the model lets it
\* move once the current value has been used and while an id may yet be made
Tick ==
    /\ stamped /\ (ops < MaxOps \/ imp # None)
    /\ now' = now + 1
    /\ stamped' = FALSE
    /\ last' = Step("tick", "", TRUE)
    /\ UNCHANGED <<toys, activeToyId, isLoaded, db, saves, blobs, imp, ops, draws>>

\* the load effect's then(): data && data.toys.length > 0 replaces the defaults
LoadComplete ==
    /\ ~isLoaded /\ ~Crashed
    /\ LET r == loadGlobalState(db, blobs)
           use == r.state # None /\ Len(r.state[1].toys) > 0
       IN /\ toys' = IF use THEN r.state[1].toys ELSE toys
          /\ activeToyId' = IF use THEN r.state[1].activeToyId ELSE activeToyId
          /\ blobs' = r.blobs
          /\ last' = Step("load", IF use THEN "record" ELSE "defaults", use)
    /\ isLoaded' = TRUE
    /\ saves' = SaveEffect(TRUE, toys', activeToyId', blobs')
    /\ UNCHANGED <<db, now, stamped, imp, ops, draws>>

\* one saveGlobalState reaches set(DB_KEY, storedState)
SaveComplete ==
    \E s \in saves :
        /\ db' = Some(s)
        /\ saves' = saves \ {s}
        /\ last' = Step("saved", "", TRUE)
        /\ UNCHANGED <<toys, activeToyId, isLoaded, blobs, now, stamped, imp, ops, draws>>

\* the page is opened again: state as constructed, object URLs and pending
\* work of the old session gone, the IndexedDB record kept
Reload ==
    /\ isLoaded /\ ops < MaxOps
    /\ ops' = ops + 1
    /\ toys' = DefaultToys
    /\ activeToyId' = "toy_default"
    /\ isLoaded' = FALSE
    /\ saves' = {}
    /\ blobs' = <<>>
    /\ imp' = None
    /\ last' = Step("reload", "", TRUE)
    /\ UNCHANGED <<db, now, stamped, draws>>

addToy ==
    /\ CanAct
    /\ LET newId == "toy_" \o ToString(now)
           newToy == [id |-> newId,
                      name |-> default_toy_name \o " " \o ToString(Len(toys) + 1),
                      settings |-> [NoSettings EXCEPT !.caseColor = "yellow"],
                      buttons |-> <<>>]
       IN /\ toys' = toys \o <<newToy>>
          /\ activeToyId' = newId
          /\ last' = Step("addToy", newId, TRUE)
    /\ saves' = SaveEffect(isLoaded, toys', activeToyId', blobs)
    /\ ops' = ops + 1
    /\ stamped' = TRUE
    /\ UNCHANGED <<isLoaded, db, blobs, now, imp, draws>>

\* Removed without the reassignment of the active id
RemovedKeepsActive(ts, a, id) == [toys |-> Filter(ts, id), activeToyId |-> a]

\* toys and active id after removeToy(id) on a list of more than one toy
Removed(ts, a, id) ==
    [toys |-> Filter(ts, id),
     activeToyId |-> IF a = id /\ Filter(ts, id) # <<>> THEN Filter(ts, id)[1].id ELSE a]

\* removeToy with the guard toys.length < 1
removeToyOffByOne(id) ==
    /\ CanAct
    /\ IF Len(toys) < 1
       THEN /\ UNCHANGED <<toys, activeToyId, saves>>
            /\ last' = Step("removeToy", id, FALSE)
       ELSE /\ toys' = Removed(toys, activeToyId, id).toys
            /\ activeToyId' = Removed(toys, activeToyId, id).activeToyId
            /\ saves' = SaveEffect(isLoaded, toys', activeToyId', blobs)
            /\ last' = Step(IF activeToyId = id THEN "removeActiveToy" ELSE "removeToy",
                            id, TRUE)
    /\ ops' = ops + 1
    /\ UNCHANGED <<isLoaded, db, blobs, now, stamped, imp, draws>>

\* removeToy(id): refused on a list of one; else filter, and the first toy
\* left becomes active when the active one went (newToys[0].id throws on an
\* empty newToys, after setToys(newToys))
removeToy(id) ==
    /\ CanAct
    /\ IF Len(toys) <= 1
       THEN /\ UNCHANGED <<toys, activeToyId, saves>>
            /\ last' = Step("removeToy", id, FALSE)
       ELSE /\ toys' = Removed(toys, activeToyId, id).toys
            /\ activeToyId' = Removed(toys, activeToyId, id).activeToyId
            /\ saves' = SaveEffect(isLoaded, toys', activeToyId', blobs)
            /\ last' = Step(IF activeToyId = id THEN "removeActiveToy" ELSE "removeToy",
                            id, TRUE)
    /\ ops' = ops + 1
    /\ UNCHANGED <<isLoaded, db, blobs, now, stamped, imp, draws>>

\* a click on another toy of the selector: setActiveToyId(toy.id)
selectToy(id) ==
    /\ CanAct /\ id # activeToyId
    /\ activeToyId' = id
    /\ saves' = SaveEffect(isLoaded, toys, id, blobs)
    /\ last' = Step("selectToy", id, TRUE)
    /\ ops' = ops + 1
    /\ UNCHANGED <<toys, isLoaded, db, blobs, now, stamped, imp, draws>>

\* setToys(prev => prev.map(t => t.id === id ? { ...t, ...updates } : t))
updateToy(ts, id, field, value) ==
    [i \in DOMAIN ts |-> IF ts[i].id = id THEN [ts[i] EXCEPT ![field] = value] ELSE ts[i]]

ToyNameInputs == {"", "Zoo"}

\* the name input of the toy list: updateToy(toy.id, { name })
renameToy(id, name) ==
    /\ CanAct
    /\ toys' = updateToy(toys, id, "name", name)
    /\ ops' = ops + 1
    /\ saves' = SaveEffect(isLoaded, toys', activeToyId, blobs)
    /\ last' = Step("renameToy", id, TRUE)
    /\ UNCHANGED <<activeToyId, isLoaded, db, blobs, now, stamped, imp, draws>>

\* buttons.map(b => b.id === id ? { ...b, ...updates } : b) on the shown toy,
\* then updateToy(activeToyId, { buttons: newButtons })
updateButton(ts, a, shown, id, field, value) ==
    updateToy(ts, a, "buttons",
              [j \in DOMAIN shown |->
                  IF shown[j].id = id THEN [shown[j] EXCEPT ![field] = value] ELSE shown[j]])

\* handleFileUpload: the chosen file gets an object URL
handleFileUpload(id, file) ==
    /\ CanAct
    /\ blobs' = Append(blobs, file)
    /\ toys' = updateButton(toys, activeToyId, buttons, id, "audioUrl",
                            Len(blobs) + 1)
    /\ ops' = ops + 1
    /\ saves' = SaveEffect(isLoaded, toys', activeToyId, blobs')
    /\ last' = Step("upload", id, TRUE)
    /\ UNCHANGED <<activeToyId, isLoaded, db, now, stamped, imp, draws>>

\* handleImport: the handler keeps the toys of its render and reads the file
importStart(doc) ==
    /\ CanAct /\ imp = None
    /\ imp' = Some([content |-> doc, toys |-> toys])
    /\ ops' = ops + 1
    /\ last' = Step("importStart", doc.type, TRUE)
    /\ UNCHANGED <<toys, activeToyId, isLoaded, db, saves, blobs, now, stamped, draws>>

\* reader.onload: importData, then setToys / setActiveToyId, or the error toast
importComplete(rnd) ==
    /\ ~Crashed /\ imp # None
    /\ LET r == importData(imp[1].content, imp[1].toys, now, rnd, blobs)
       IN IF r.ok
          THEN /\ toys' = r.state.toys
               /\ activeToyId' = r.state.activeToyId
               /\ blobs' = r.blobs
               /\ saves' = SaveEffect(isLoaded, toys', activeToyId', blobs')
               /\ last' = Step("import",
                               IF IsSingle(imp[1].content) THEN "single" ELSE "full", TRUE)
          ELSE /\ UNCHANGED <<toys, activeToyId, blobs, saves>>
               /\ last' = Step("import", "error", FALSE)
    /\ imp' = None
    /\ draws' = draws + Len(rnd)
    /\ stamped' = (stamped \/ Len(rnd) > 0)
    /\ UNCHANGED <<isLoaded, db, now, ops>>

\* the documents a user can pick: the samples and the exports of the state shown
Docs ==
    SampleDocs
      \cup {exportAllData([toys |-> toys, activeToyId |-> activeToyId], blobs, {})}
      \cup {exportSingleToy(toys[i], blobs, {}) : i \in DOMAIN toys}

\* what Math.random() may give during the import that is waiting
PendingRuns ==
    IF imp = None THEN {} ELSE RandomRuns(Draws(DocToys(imp[1].content)), draws)

\* Spec follows the toys and their persistence: the fetches succeed, and the
\* audio cache and the recorder are left where they are
ToysOnly == UNCHANGED <<envVars, cacheVars, recVars, jobVars>>

Next ==
    \/ Tick /\ ToysOnly
    \/ LoadComplete /\ ToysOnly
    \/ SaveComplete /\ ToysOnly
    \/ Reload /\ ToysOnly
    \/ addToy /\ ToysOnly
    \/ \E id \in Ids(toys) : removeToy(id) /\ ToysOnly
    \/ \E id \in Ids(toys) : selectToy(id) /\ ToysOnly
    \/ \E id \in Ids(toys), name \in ToyNameInputs : renameToy(id, name) /\ ToysOnly
    \/ \E id \in Ids(buttons) : handleFileUpload(id, WavBlob) /\ ToysOnly
    \/ \E doc \in Docs : importStart(doc) /\ ToysOnly
    \/ \E rnd \in PendingRuns : importComplete(rnd) /\ ToysOnly

Spec == Init /\ [][Next]_vars

\* ------------------------------------------------ save and export, failing
\* the bytes behind an object URL are gone: from now on fetch(url) rejects
loseUrl(h) ==
    /\ h \notin unfetchable
    /\ unfetchable' = unfetchable \cup {h}
    /\ last' = Step("loseUrl", ToString(h), TRUE)
    /\ UNCHANGED <<toys, activeToyId, isLoaded, db, saves, blobs, now, stamped, imp, ops,
                   draws, download>>

\* handleExport: exportAllData({ toys, activeToyId }) goes to the download
handleExport ==
    /\ CanAct
    /\ download' = Some(exportAllData([toys |-> toys, activeToyId |-> activeToyId],
                                      blobs, unfetchable))
    /\ ops' = ops + 1
    /\ last' = Step("export", "full", TRUE)
    /\ UNCHANGED <<toys, activeToyId, isLoaded, db, saves, blobs, now, stamped, imp,
                   draws, unfetchable>>

\* handleExportToy(toy): exportSingleToy(toy) goes to the download
handleExportToy(toy) ==
    /\ CanAct
    /\ download' = Some(exportSingleToy(toy, blobs, unfetchable))
    /\ ops' = ops + 1
    /\ last' = Step("export", "single", TRUE)
    /\ UNCHANGED <<toys, activeToyId, isLoaded, db, saves, blobs, now, stamped, imp,
                   draws, unfetchable>>

\* save and export while object URLs fail: the list is filled by an upload or
\* by the import of a backup with a sound and an image
FetchNext ==
    \/ LoadComplete /\ UNCHANGED <<envVars, cacheVars, recVars, jobVars>>
    \/ SaveComplete /\ UNCHANGED <<envVars, cacheVars, recVars, jobVars>>
    \/ \E id \in Ids(buttons) :
          handleFileUpload(id, WavBlob) /\ UNCHANGED <<envVars, cacheVars, recVars, jobVars>>
    \/ importStart(ForeignSingle) /\ UNCHANGED <<envVars, cacheVars, recVars, jobVars>>
    \/ \E rnd \in PendingRuns :
          importComplete(rnd) /\ UNCHANGED <<envVars, cacheVars, recVars, jobVars>>
    \/ \E h \in DOMAIN blobs : loseUrl(h) /\ UNCHANGED <<cacheVars, recVars, jobVars>>
    \/ handleExport /\ UNCHANGED <<cacheVars, recVars, jobVars>>
    \/ \E i \in DOMAIN toys : handleExportToy(toys[i]) /\ UNCHANGED <<cacheVars, recVars, jobVars>>

SpecFetch == Init /\ [][FetchNext]_vars

\* --------------------------------------------------------- the audio cache
\* the files a user picks for a button's sound
Files == {WavBlob, Mp3Blob, TextBlob}

\* ctx.decodeAudioData rejects bytes that are no audio
Decodable(blob) == blob.type \in {"audio/wav", "audio/mpeg", "audio/webm"}

\* decodeAudio(arrayBuffer): the buffer holds the samples of the payload
decodeAudio(blob) == blob.data

\* fetch, arrayBuffer and decodeAudio inside the try: None when one throws
FetchDecoded(B, h, lost) ==
    IF FetchBlob(B, h, lost) = None THEN None
    ELSE IF Decodable(FetchBlob(B, h, lost)[1])
         THEN Some(decodeAudio(FetchBlob(B, h, lost)[1]))
         ELSE None

\* ref.current[id] (0: undefined), ref.current[id] = v, delete ref.current[id]
Get(f, id) == IF id \in DOMAIN f THEN f[id] ELSE 0
Put(f, id, v) == [x \in DOMAIN f \cup {id} |-> IF x = id THEN v ELSE f[x]]
Drop(f, id) == [x \in DOMAIN f \ {id} |-> f[x]]

RECURSIVE syncAudioFrom(_, _, _, _)
\* the loop of syncAudio from button i of currentButtons up to its next await
\* (at: the button whose fetch it waits for) or to its end (at past the list)
syncAudioFrom(btns, i, bufs, urls) ==
    IF i > Len(btns) THEN [at |-> i, audioBuffers |-> bufs, lastUrls |-> urls]
    ELSE IF btns[i].audioUrl # 0 /\ btns[i].audioUrl # Get(urls, btns[i].id)
    THEN [at |-> i, audioBuffers |-> bufs, lastUrls |-> urls]
    ELSE IF btns[i].audioUrl = 0
    THEN syncAudioFrom(btns, i + 1, Drop(bufs, btns[i].id), Drop(urls, btns[i].id))
    ELSE syncAudioFrom(btns, i + 1, bufs, urls)

\* AfterAwait where the rejected fetch or decode ends the run
AfterAwaitThrows(btns, i, res, bufs, urls) ==
    IF res = None
    THEN [at |-> Len(btns) + 1, audioBuffers |-> bufs, lastUrls |-> urls]
    ELSE syncAudioFrom(btns, i + 1, Put(bufs, btns[i].id, res[1]),
                       Put(urls, btns[i].id, btns[i].audioUrl))

\* the awaits for button i are over with the result res: the buffer and the
\* handle are recorded, or the catch logs the error; then the loop goes on
AfterAwait(btns, i, res, bufs, urls) ==
    IF res = None
    THEN syncAudioFrom(btns, i + 1, bufs, urls)
    ELSE syncAudioFrom(btns, i + 1, Put(bufs, btns[i].id, res[1]),
                       Put(urls, btns[i].id, btns[i].audioUrl))

\* the sync effect of a render with new buttons (or with isLoaded just set):
\* nothing before the load; else syncAudio runs up to its first await
syncAudio ==
    IF ~isLoaded'
    THEN UNCHANGED cacheVars
    ELSE LET r == syncAudioFrom(buttons', 1, audioBuffers, lastUrls)
         IN /\ audioBuffers' = r.audioBuffers
            /\ lastUrls' = r.lastUrls
            /\ syncs' = IF r.at > Len(buttons') THEN syncs
                        ELSE Append(syncs, [btns |-> buttons', at |-> r.at])

\* playSound(config): the cached buffer is played, else the file behind the
\* handle, else nothing
playSound(config) ==
    IF Get(audioBuffers, config.id) # 0 THEN "buffer"
    ELSE IF config.audioUrl # 0 THEN "url" ELSE "silent"

\* the sequence s without its k-th element
RemoveAt(s, k) == SubSeq(s, 1, k - 1) \o SubSeq(s, k + 1, Len(s))

\* the fetch and decode that run k of syncAudio waits for settle
syncResume(k) ==
    LET s == syncs[k]
        btn == s.btns[s.at]
        res == FetchDecoded(blobs, btn.audioUrl, unfetchable)
        r == AfterAwait(s.btns, s.at, res, audioBuffers, lastUrls)
    IN /\ audioBuffers' = r.audioBuffers
       /\ lastUrls' = r.lastUrls
       /\ syncs' = IF r.at > Len(s.btns) THEN RemoveAt(syncs, k)
                   ELSE [syncs EXCEPT ![k].at = r.at]
       /\ last' = Step("decoded", btn.id, res # None)
       /\ UNCHANGED <<toys, activeToyId, isLoaded, db, saves, blobs, now, stamped, imp,
                      ops, draws>>

\* deleteAudio(id): updateButton(id, { audioUrl: null })
deleteAudio(id) ==
    /\ CanAct
    /\ toys' = updateButton(toys, activeToyId, buttons, id, "audioUrl", 0)
    /\ ops' = ops + 1
    /\ saves' = SaveEffect(isLoaded, toys', activeToyId, blobs)
    /\ last' = Step("deleteAudio", id, TRUE)
    /\ UNCHANGED <<activeToyId, isLoaded, db, blobs, now, stamped, imp, draws>>

\* removeButton(id): updateToy(activeToyId, { buttons: buttons.filter(..) })
removeButton(id) ==
    /\ CanAct
    /\ toys' = updateToy(toys, activeToyId, "buttons", Filter(buttons, id))
    /\ ops' = ops + 1
    /\ saves' = SaveEffect(isLoaded, toys', activeToyId, blobs)
    /\ last' = Step("removeButton", id, TRUE)
    /\ UNCHANGED <<activeToyId, isLoaded, db, blobs, now, stamped, imp, draws>>

\* a click on a colour of the button editor: updateButton(id, { color: c }),
\* also when c is the colour the button has
pickColor(id, c) ==
    /\ CanAct
    /\ toys' = updateButton(toys, activeToyId, buttons, id, "color", c)
    /\ ops' = ops + 1
    /\ saves' = SaveEffect(isLoaded, toys', activeToyId, blobs)
    /\ last' = Step("color", id, TRUE)
    /\ UNCHANGED <<activeToyId, isLoaded, db, blobs, now, stamped, imp, draws>>

KeyColors == {"white", "yellow"}

\* the buttons of the shown toy that have a sound
WithSound == {buttons[j].id : j \in {i \in DOMAIN buttons : buttons[i].audioUrl # 0}}

\* the button editor and the cache: every gesture renders new buttons, and the
\* sync effect of that render is part of the step
CacheNext ==
    \/ LoadComplete /\ syncAudio /\ UNCHANGED <<envVars, recVars, jobVars>>
    \/ \E id \in Ids(buttons), file \in Files :
          handleFileUpload(id, file) /\ syncAudio /\ UNCHANGED <<envVars, recVars, jobVars>>
    \/ \E id \in WithSound : deleteAudio(id) /\ syncAudio /\ UNCHANGED <<envVars, recVars, jobVars>>
    \/ \E id \in Ids(buttons) :
          removeButton(id) /\ syncAudio /\ UNCHANGED <<envVars, recVars, jobVars>>
    \/ \E id \in Ids(buttons), c \in KeyColors :
          pickColor(id, c) /\ syncAudio /\ UNCHANGED <<envVars, recVars, jobVars>>
    \/ \E k \in DOMAIN syncs : syncResume(k) /\ UNCHANGED <<envVars, recVars, jobVars>>

SpecCache == Init /\ [][CacheNext]_vars

\* ------------------------------------------------------------ the recorder
\* new MediaRecorder(stream) after mediaRecorder.start(): state is the
\* recorder's state, stopEvent tells that stop() has queued the task that
\* fires dataavailable and stop, open that the tracks of the stream are live,
\* captured that the recording it delivered was not empty
Recorder(id) ==
    [id |-> id, state |-> "recording", stopEvent |-> FALSE, open |-> TRUE,
     captured |-> FALSE]

\* the loudness setAudioLevel gets: 0, or 1 for any level above 0
Levels == {0, 1}

\* the catch shows no notice
noNotice == None

\* showToast(t('mic_error'), "error")
micErrorNotice == Some("mic_error")

\* CanStop that does not look at the recorder's state
CanStopIgnoresState(ref, recs) == ref # 0

\* mediaRecorderRef.current && mediaRecorderRef.current.state !== 'inactive'
CanStop(ref, recs) == ref # 0 /\ recs[ref].state # "inactive"

\* Stopped that leaves the tracks of the stream running
StoppedLeavesTracks(rec, size) ==
    [rec EXCEPT !.stopEvent = FALSE, !.captured = size > 0]

\* the recorder after its stop event: stream.getTracks().forEach(track.stop())
Stopped(rec, size) ==
    [rec EXCEPT !.stopEvent = FALSE, !.open = FALSE, !.captured = size > 0]

\* a click on a recording control; the clicks are bounded
CanTap == ~Crashed /\ ops < MaxTaps

\* startRecording(id) up to await navigator.mediaDevices.getUserMedia(..)
startRecording(id) ==
    /\ CanTap
    /\ starting' = Append(starting, id)
    /\ ops' = ops + 1
    /\ last' = Step("startRecording", id, TRUE)
    /\ UNCHANGED <<toys, activeToyId, isLoaded, db, saves, blobs, now, stamped, imp, draws,
                   recordingId, audioLevel, pendingRecording, mediaRecorderRef, recorders,
                   audioChunksRef, analyserRef, toast>>

\* getUserMedia resolves for the k-th waiting call: the recorder and the
\* analyser are made and put in the refs, updateLevel() runs once, the
\* recorder starts, setRecordingId(id)
micGranted(k, level) ==
    /\ recorders' = Append(recorders, Recorder(starting[k]))
    /\ mediaRecorderRef' = Len(recorders) + 1
    /\ audioChunksRef' = <<>>
    /\ analyserRef' = Len(recorders) + 1
    /\ audioLevel' = level
    /\ recordingId' = starting[k]
    /\ starting' = RemoveAt(starting, k)
    /\ last' = Step("recording", starting[k], TRUE)
    /\ UNCHANGED <<toys, activeToyId, isLoaded, db, saves, blobs, now, stamped, imp, ops,
                   draws, pendingRecording, toast>>

\* getUserMedia (or the resume of the audio context) rejects: the catch
micDenied(k) ==
    /\ toast' = micErrorNotice
    /\ recordingId' = Null
    /\ starting' = RemoveAt(starting, k)
    /\ last' = Step("micDenied", starting[k], FALSE)
    /\ UNCHANGED <<toys, activeToyId, isLoaded, db, saves, blobs, now, stamped, imp, ops,
                   draws, audioLevel, pendingRecording, mediaRecorderRef, recorders,
                   audioChunksRef, analyserRef>>

\* showToast's setTimeout(() => setToast(null), 3000)
toastTimeout ==
    /\ toast # None
    /\ toast' = None
    /\ last' = Step("toastTimeout", "", TRUE)
    /\ UNCHANGED <<toys, activeToyId, isLoaded, db, saves, blobs, now, stamped, imp, ops,
                   draws, recordingId, audioLevel, pendingRecording, mediaRecorderRef,
                   recorders, audioChunksRef, analyserRef, starting>>

\* an animation frame of updateLevel while analyserRef.current is set
updateLevel(level) ==
    /\ analyserRef # 0 /\ level # audioLevel
    /\ audioLevel' = level
    /\ last' = Step("updateLevel", "", TRUE)
    /\ UNCHANGED <<toys, activeToyId, isLoaded, db, saves, blobs, now, stamped, imp, ops,
                   draws, recordingId, pendingRecording, mediaRecorderRef, recorders,
                   audioChunksRef, analyserRef, starting, toast>>

\* stopRecording(): stop() on the recorder of the ref, which makes it inactive
\* and queues its events; with no recorder or an inactive one the indicator
\* is cleared
stopRecording ==
    /\ CanTap
    /\ ops' = ops + 1
    /\ IF CanStop(mediaRecorderRef, recorders)
       THEN /\ recorders' = [recorders EXCEPT ![mediaRecorderRef].state = "inactive",
                                              ![mediaRecorderRef].stopEvent = TRUE]
            /\ last' = Step("stopRecording", recorders[mediaRecorderRef].id, TRUE)
            /\ UNCHANGED <<recordingId, audioLevel>>
       ELSE /\ recordingId' = Null
            /\ audioLevel' = 0
            /\ last' = Step("stopRecording", "", FALSE)
            /\ UNCHANGED recorders
    /\ UNCHANGED <<toys, activeToyId, isLoaded, db, saves, blobs, now, stamped, imp, draws,
                   pendingRecording, mediaRecorderRef, audioChunksRef, analyserRef,
                   starting, toast>>

\* the task stop() queued for recorder r: ondataavailable with the data
\* recorded (size 0: nothing), then onstop
onstop(r, size) ==
    /\ recorders[r].stopEvent
    /\ LET chunks == IF size > 0 THEN Append(audioChunksRef, r) ELSE audioChunksRef
       IN /\ audioChunksRef' = chunks
          /\ IF Len(chunks) > 0
             THEN /\ blobs' = Append(blobs, [type |-> "audio/webm", data |-> chunks])
                  /\ pendingRecording' =
                        Some([id |-> recorders[r].id,
                              blob |-> [type |-> "audio/webm", data |-> chunks],
                              url |-> Len(blobs) + 1])
             ELSE UNCHANGED <<blobs, pendingRecording>>
          /\ last' = Step("onstop", recorders[r].id, Len(chunks) > 0)
    /\ analyserRef' = 0
    /\ recordingId' = Null
    /\ audioLevel' = 0
    /\ recorders' = [recorders EXCEPT ![r] = Stopped(recorders[r], size)]
    /\ UNCHANGED <<toys, activeToyId, isLoaded, db, saves, now, stamped, imp, ops, draws,
                   mediaRecorderRef, starting, toast>>

\* the sizes of the data a recorder hands over: nothing, or something
Sizes == {0, 1}

\* the stop event of recorder r
StopEvent(r) ==
    \E size \in Sizes :
        r \in DOMAIN recorders /\ onstop(r, size) /\ UNCHANGED <<envVars, cacheVars, jobVars>>

\* the record and stop controls, the permission prompt and the recorder's events
RecNext ==
    \/ \E id \in Ids(buttons) : startRecording(id) /\ UNCHANGED <<envVars, cacheVars, jobVars>>
    \/ \E k \in DOMAIN starting, level \in Levels :
          micGranted(k, level) /\ UNCHANGED <<envVars, cacheVars, jobVars>>
    \/ \E k \in DOMAIN starting : micDenied(k) /\ UNCHANGED <<envVars, cacheVars, jobVars>>
    \/ toastTimeout /\ UNCHANGED <<envVars, cacheVars, jobVars>>
    \/ \E level \in Levels : updateLevel(level) /\ UNCHANGED <<envVars, cacheVars, jobVars>>
    \/ stopRecording /\ UNCHANGED <<envVars, cacheVars, jobVars>>
    \/ \E r \in 1..MaxTaps : StopEvent(r)

SpecRec == Init /\ [][RecNext]_vars

\* the browser runs every task it has queued: a stop event is delivered
SpecRecLive == SpecRec /\ \A r \in 1..MaxTaps : WF_vars(StopEvent(r))

\* ---------------------------------------------------- the pending recording
\* An AudioBuffer is its sampleRate and one sequence of samples per channel;
\* sample k of a channel is channels[c][k + 1], and its value is num / den
\* hundredths of full scale (a decoded buffer has den 1; 0.01 is the sample 1)
Threshold == 1
TargetPeak == 95

Abs(x) == IF x < 0 THEN 0 - x ELSE x
Min(S) == CHOOSE x \in S : \A y \in S : x <= y
Max(S) == CHOOSE x \in S : \A y \in S : y <= x

\* buffer.length
Length(buffer) == Len(buffer.channels[1])

\* Math.abs(data[i]) > threshold, on the indices 0 .. data.length - 1
Loud(buffer, c) ==
    {i \in 0..(Length(buffer) - 1) : Abs(buffer.channels[c][i + 1]) > Threshold * buffer.den}

\* the two scans over every channel: start begins at buffer.length and goes
\* down to the first loud index of a channel, end begins at 0 and goes up to
\* the last loud index of a channel
FirstLoud(buffer) ==
    Min({Length(buffer)}
          \cup {Min(Loud(buffer, c)) : c \in {d \in DOMAIN buffer.channels : Loud(buffer, d) # {}}})
LastLoud(buffer) ==
    Max({0}
          \cup {Max(Loud(buffer, c)) : c \in {d \in DOMAIN buffer.channels : Loud(buffer, d) # {}}})

\* Math.floor(buffer.sampleRate * 0.05)
Pad(buffer) == buffer.sampleRate \div 20

\* the window after the padding: Math.max(0, start - pad) and
\* Math.min(buffer.length - 1, end + pad)
WindowStart(buffer) == Max({0, FirstLoud(buffer) - Pad(buffer)})
WindowEnd(buffer) == Min({Length(buffer) - 1, LastLoud(buffer) + Pad(buffer)})

\* channelData[c].subarray(start, end + 1)
Window(buffer, c) == SubSeq(buffer.channels[c], WindowStart(buffer) + 1, WindowEnd(buffer) + 1)

\* the peak of the copied window over all channels
Peak(buffer) ==
    Max({0} \cup {Abs(Window(buffer, c)[k]) : c \in DOMAIN buffer.channels,
                                              k \in DOMAIN Window(buffer, 1)})

\* Factor that scales whatever the peak is
FactorAlways(peak, den) ==
    IF peak > 0 THEN [num |-> TargetPeak * den, den |-> peak] ELSE [num |-> 1, den |-> 1]

\* if (peak > 0 && peak < 0.95) factor = 0.95 / peak, else the copy stays as
\* it is (factor 1); peak is in units of 1 / den hundredths
Factor(peak, den) ==
    IF peak > 0 /\ peak < TargetPeak * den
    THEN [num |-> TargetPeak * den, den |-> peak]
    ELSE [num |-> 1, den |-> 1]

\* trimAndNormalize(buffer): same tells that the buffer handed back is the
\* one that was passed in
trimAndNormalize(buffer) ==
    IF FirstLoud(buffer) >= LastLoud(buffer)
    THEN [same |-> TRUE, buffer |-> buffer]
    ELSE LET f == Factor(Peak(buffer), buffer.den)
         IN [same |-> FALSE,
             buffer |-> [sampleRate |-> buffer.sampleRate,
                         den |-> buffer.den * f.den,
                         channels |-> [c \in DOMAIN buffer.channels |->
                                          [k \in DOMAIN Window(buffer, c) |->
                                              Window(buffer, c)[k] * f.num]]]]

\* the quotient with the fraction cut off, as setInt16 stores a number
Trunc(x, y) == IF x < 0 THEN 0 - ((0 - x) \div y) ELSE x \div y

\* one sample of audioBufferToWav: clamped to -1 .. 1, times 0x8000 below 0
\* and times 0x7FFF from 0 on
Pcm16(num, den) ==
    LET clamped == Max({0 - 100 * den, Min({100 * den, num})})
    IN IF clamped < 0 THEN Trunc(clamped * 32768, 100 * den)
       ELSE Trunc(clamped * 32767, 100 * den)

\* audioBufferToWav(buffer): 16-bit PCM under the type audio/wav
audioBufferToWav(buffer) ==
    [type |-> "audio/wav",
     data |-> [sampleRate |-> buffer.sampleRate,
               channels |-> [c \in DOMAIN buffer.channels |->
                               [k \in DOMAIN buffer.channels[c] |->
                                   Pcm16(buffer.channels[c][k], buffer.den)]]]]

\* what a microphone picks up, in hundredths: silence, a sound at half scale
\* and one near full scale
Samples == {0, 0 - 50, 98}
\* 20 samples a second make the 50 ms pad one sample
Rate == 20

\* a channel that is silent but for at most one sample, which may be just at
\* the threshold
Blips ==
    {[k \in 1..Frames |-> IF k = at THEN v ELSE 0] :
        at \in 1..Frames, v \in Samples \cup {Threshold}}

\* the buffers decodeAudio gives for a recording: one channel of any samples
\* or with a blip, or two channels with a blip each
Recordings ==
    {[sampleRate |-> Rate, den |-> 1, channels |-> <<ch>>] :
        ch \in [1..Frames -> Samples] \cup Blips}
      \cup {[sampleRate |-> Rate, den |-> 1, channels |-> <<l, r>>] : l \in Blips, r \in Blips}

\* the outcomes of blob.arrayBuffer() and decodeAudio on the pending recording:
\* None when one of them throws
Decodes == {None} \cup {Some(b) : b \in Recordings}

\* Finished that assigns the recording to the button also when the processing
\* has thrown
FinishedAssignsAnyway(p, res, ts, B, pending) ==
    LET buf == IF res = None THEN CHOOSE b \in Recordings : TRUE ELSE res[1]
    IN [ok |-> res # None,
        blobs |-> Append(B, audioBufferToWav(trimAndNormalize(buf).buffer)),
        toys |-> updateButton(ts, p.activeToyId, p.buttons, p.id, "audioUrl", Len(B) + 1),
        pendingRecording |-> IF res = None THEN pending ELSE None,
        toast |-> Some(IF res = None THEN "process_error" ELSE "save_success")]

\* savePendingRecording after its awaits, the call p having kept the
\* pendingRecording, the buttons and the activeToyId of its render: the try
\* block up to showToast(save_success), or the catch
Finished(p, res, ts, B, pending) ==
    IF res = None
    THEN [ok |-> FALSE, blobs |-> B, toys |-> ts, pendingRecording |-> pending,
          toast |-> Some("process_error")]
    ELSE [ok |-> TRUE,
          blobs |-> Append(B, audioBufferToWav(trimAndNormalize(res[1]).buffer)),
          toys |-> updateButton(ts, p.activeToyId, p.buttons, p.id, "audioUrl", Len(B) + 1),
          pendingRecording |-> None,
          toast |-> Some("save_success")]

\* a click on Save of the preview (disabled while isProcessing):
\* savePendingRecording up to await pendingRecording.blob.arrayBuffer()
savePendingRecording ==
    /\ CanTap /\ pendingRecording # None /\ processing = None
    /\ processing' = Some([id |-> pendingRecording[1].id, buttons |-> buttons,
                           activeToyId |-> activeToyId])
    /\ ops' = ops + 1
    /\ last' = Step("saveRecording", pendingRecording[1].id, TRUE)
    /\ UNCHANGED <<toys, activeToyId, isLoaded, db, saves, blobs, now, stamped, imp, draws,
                   recVars, loadFailed, imageJobs, trimmed>>

\* the awaits of savePendingRecording settle with res
processed(res) ==
    /\ processing # None
    /\ LET r == Finished(processing[1], res, toys, blobs, pendingRecording)
       IN /\ toys' = r.toys
          /\ blobs' = r.blobs
          /\ pendingRecording' = r.pendingRecording
          /\ toast' = r.toast
          /\ last' = Step("processed", processing[1].id, r.ok)
    /\ trimmed' = IF res = None THEN trimmed
                  ELSE Some([input |-> res[1], output |-> trimAndNormalize(res[1])])
    /\ saves' = IF res = None THEN saves ELSE SaveEffect(isLoaded, toys', activeToyId, blobs')
    /\ processing' = None
    /\ UNCHANGED <<activeToyId, isLoaded, db, now, stamped, imp, ops, draws, recordingId,
                   audioLevel, mediaRecorderRef, recorders, audioChunksRef, analyserRef,
                   starting, loadFailed, imageJobs>>

\* a click on Discard of the preview: setPendingRecording(null)
discardRecording ==
    /\ CanTap /\ pendingRecording # None
    /\ pendingRecording' = None
    /\ ops' = ops + 1
    /\ last' = Step("discard", pendingRecording[1].id, TRUE)
    /\ UNCHANGED <<toys, activeToyId, isLoaded, db, saves, blobs, now, stamped, imp, draws,
                   recordingId, audioLevel, mediaRecorderRef, recorders, audioChunksRef,
                   analyserRef, starting, toast, jobVars>>

\* a recording of silence and one of a sound at half scale
Quiet == [sampleRate |-> Rate, den |-> 1, channels |-> <<[k \in 1..Frames |-> 0]>>]
Spoken == [sampleRate |-> Rate, den |-> 1, channels |-> <<[k \in 1..Frames |-> 0 - 50]>>]

\* the recorder with the preview of its recording: record, stop, then save or
\* discard; a button changed after the load is saved, the cache is left where
\* it is
SaveNext ==
    \/ LoadComplete /\ UNCHANGED <<envVars, cacheVars, recVars, jobVars>>
    \/ SaveComplete /\ UNCHANGED <<envVars, cacheVars, recVars, jobVars>>
    \/ RecNext
    \/ savePendingRecording /\ UNCHANGED <<envVars, cacheVars>>
    \/ \E res \in {None, Some(Quiet), Some(Spoken)} :
          processed(res) /\ UNCHANGED <<envVars, cacheVars>>
    \/ discardRecording /\ UNCHANGED <<envVars, cacheVars>>

SpecSave == Init /\ [][SaveNext]_vars

\* one recording after the other is made and saved, whatever the microphone
\* has picked up
TrimNext ==
    \/ \E id \in Ids(buttons) : startRecording(id) /\ UNCHANGED <<envVars, cacheVars, jobVars>>
    \/ \E k \in DOMAIN starting, level \in Levels :
          micGranted(k, level) /\ UNCHANGED <<envVars, cacheVars, jobVars>>
    \/ stopRecording /\ UNCHANGED <<envVars, cacheVars, jobVars>>
    \/ \E r \in 1..MaxTaps : StopEvent(r)
    \/ savePendingRecording /\ UNCHANGED <<envVars, cacheVars>>
    \/ \E res \in Decodes : processed(res) /\ UNCHANGED <<envVars, cacheVars>>

SpecTrim == Init /\ [][TrimNext]_vars

\* -------------------------------------------------------- the button editor
\* buttons.findIndex(b => b.id === id), counted from 1 (0: not found)
IndexOf(s, id) ==
    IF \E j \in DOMAIN s : s[j].id = id
    THEN Min({j \in DOMAIN s : s[j].id = id})
    ELSE 0

\* newArray.splice(k, 0, x), k counted from 0
InsertAt(s, k, x) == SubSeq(s, 1, k) \o <<x>> \o SubSeq(s, k + 1, Len(s))

\* arrayMove(array, from, to) of dnd-kit, from and to counted from 1 here:
\* the element is taken out and put back at the place to
arrayMove(s, from, to) == InsertAt(RemoveAt(s, from), to - 1, s[from])

\* addButton: a new button at the end of the shown buttons, written to the
\* toy with the active id
addButton ==
    /\ CanAct
    /\ toys' = updateToy(toys, activeToyId, "buttons",
                         buttons \o <<Key("btn_" \o ToString(now), "", "white")>>)
    /\ ops' = ops + 1
    /\ stamped' = TRUE
    /\ saves' = SaveEffect(isLoaded, toys', activeToyId, blobs)
    /\ last' = Step("addButton", "btn_" \o ToString(now), TRUE)
    /\ UNCHANGED <<activeToyId, isLoaded, db, blobs, now, imp, draws>>

\* duplicateButton(id): the copy, with a new id, goes right after the original
duplicateButton(id) ==
    /\ CanAct /\ IndexOf(buttons, id) # 0
    /\ LET index == IndexOf(buttons, id)
           newButton == [buttons[index] EXCEPT !.id = "btn_" \o ToString(now)]
       IN toys' = updateToy(toys, activeToyId, "buttons", InsertAt(buttons, index, newButton))
    /\ ops' = ops + 1
    /\ stamped' = TRUE
    /\ saves' = SaveEffect(isLoaded, toys', activeToyId, blobs)
    /\ last' = Step("duplicateButton", id, TRUE)
    /\ UNCHANGED <<activeToyId, isLoaded, db, blobs, now, imp, draws>>

\* the text input of the button editor: updateButton(id, { text })
editText(id, text) ==
    /\ CanAct
    /\ toys' = updateButton(toys, activeToyId, buttons, id, "text", text)
    /\ ops' = ops + 1
    /\ saves' = SaveEffect(isLoaded, toys', activeToyId, blobs)
    /\ last' = Step("text", id, TRUE)
    /\ UNCHANGED <<activeToyId, isLoaded, db, blobs, now, stamped, imp, draws>>

\* handleDragEnd: the button active is dropped on the button over
handleDragEnd(active, over) ==
    /\ CanAct /\ active # over
    /\ IndexOf(buttons, active) # 0 /\ IndexOf(buttons, over) # 0
    /\ toys' = updateToy(toys, activeToyId, "buttons",
                         arrayMove(buttons, IndexOf(buttons, active), IndexOf(buttons, over)))
    /\ ops' = ops + 1
    /\ saves' = SaveEffect(isLoaded, toys', activeToyId, blobs)
    /\ last' = Step("reorder", active, TRUE)
    /\ UNCHANGED <<activeToyId, isLoaded, db, blobs, now, stamped, imp, draws>>

\* the blob canvas.toBlob makes of the resized picture
JpegBlob == [type |-> "image/jpeg", data |-> 4]

\* handleImageUpload(id, e) up to reader.readAsDataURL(file): the callbacks
\* keep the updateButton of this render, with its buttons and activeToyId
handleImageUpload(id) ==
    /\ CanAct
    /\ imageJobs' = Append(imageJobs, [id |-> id, buttons |-> buttons,
                                       activeToyId |-> activeToyId])
    /\ ops' = ops + 1
    /\ last' = Step("imageStart", id, TRUE)
    /\ UNCHANGED <<toys, activeToyId, isLoaded, db, saves, blobs, now, stamped, imp, draws,
                   loadFailed, processing, trimmed>>

\* the callback of canvas.toBlob for the k-th upload under way: with a blob,
\* updateButton(id, { imageUrl }); without one (or when the file is no
\* picture and img.onload never comes) nothing
imageDone(k, ok) ==
    /\ ~Crashed
    /\ imageJobs' = RemoveAt(imageJobs, k)
    /\ IF ok
       THEN /\ blobs' = Append(blobs, JpegBlob)
            /\ toys' = updateButton(toys, imageJobs[k].activeToyId, imageJobs[k].buttons,
                                    imageJobs[k].id, "imageUrl", Len(blobs) + 1)
            /\ saves' = SaveEffect(isLoaded, toys', activeToyId, blobs')
       ELSE UNCHANGED <<toys, blobs, saves>>
    /\ last' = Step("imageDone", imageJobs[k].id, ok)
    /\ UNCHANGED <<activeToyId, isLoaded, db, now, stamped, imp, ops, draws, loadFailed,
                   processing, trimmed>>

\* the texts typed into a button
KeyTexts == {"moo"}

\* a full backup of the state shown, as the export makes it
OwnBackup == exportAllData([toys |-> toys, activeToyId |-> activeToyId], blobs, {})

\* no upload of a picture and no recording is touched
NoJobs == UNCHANGED <<envVars, cacheVars, recVars, jobVars>>

\* the button editor, with the toys added or imported meanwhile
EditNext ==
    \/ Tick /\ NoJobs
    \/ LoadComplete /\ NoJobs
    \/ addToy /\ NoJobs
    \/ \E doc \in {OwnBackup, ForeignFull} : importStart(doc) /\ NoJobs
    \/ \E rnd \in PendingRuns : importComplete(rnd) /\ NoJobs
    \/ addButton /\ NoJobs
    \/ \E id \in Ids(buttons) : duplicateButton(id) /\ NoJobs
    \/ \E id \in Ids(buttons) : removeButton(id) /\ NoJobs
    \/ \E id \in Ids(buttons), c \in KeyColors : pickColor(id, c) /\ NoJobs
    \/ \E id \in Ids(buttons), text \in KeyTexts : editText(id, text) /\ NoJobs
    \/ \E active \in Ids(buttons), over \in Ids(buttons) : handleDragEnd(active, over) /\ NoJobs
    \/ \E id \in Ids(buttons) : handleImageUpload(id) /\ UNCHANGED <<envVars, cacheVars, recVars>>
    \/ \E k \in DOMAIN imageJobs, ok \in BOOLEAN :
          imageDone(k, ok) /\ UNCHANGED <<envVars, cacheVars, recVars>>

SpecEdit == Init /\ [][EditNext]_vars

\* ------------------------------------------------------- the initial load
\* the load effect when get(DB_KEY) rejects: loadGlobalState rejects, the
\* then() of the effect is not run and nothing catches the rejection
LoadFails ==
    /\ ~isLoaded /\ ~loadFailed /\ ~Crashed
    /\ loadFailed' = TRUE
    /\ last' = Step("load", "error", FALSE)
    /\ UNCHANGED <<toys, activeToyId, isLoaded, db, saves, blobs, now, stamped, imp, ops,
                   draws, imageJobs, processing, trimmed>>

\* the read of the record ends, with the record (or its absence) or with an
\* error
LoadSettles ==
    \/ ~loadFailed /\ LoadComplete /\ syncAudio /\ UNCHANGED <<envVars, recVars, jobVars>>
    \/ LoadFails /\ UNCHANGED <<envVars, cacheVars, recVars>>

\* the page is opened again: the refs of the cache are new, no run of the old
\* page goes on
Reopen ==
    /\ Reload
    /\ syncs' = <<>> /\ audioBuffers' = NoEntries /\ lastUrls' = NoEntries
    /\ UNCHANGED <<envVars, recVars, jobVars>>

\* a session from its load on: edits before and after the load, the saves and
\* the cache syncs they start, and the next session
LoadNext ==
    \/ LoadSettles
    \/ SaveComplete /\ UNCHANGED <<envVars, cacheVars, recVars, jobVars>>
    \/ Reopen
    \/ \E id \in Ids(buttons), c \in KeyColors :
          pickColor(id, c) /\ syncAudio /\ UNCHANGED <<envVars, recVars, jobVars>>
    \/ \E id \in Ids(buttons) :
          handleFileUpload(id, WavBlob) /\ syncAudio /\ UNCHANGED <<envVars, recVars, jobVars>>
    \/ \E k \in DOMAIN syncs : syncResume(k) /\ UNCHANGED <<envVars, recVars, jobVars>>

SpecLoad == Init /\ [][LoadNext]_vars

\* the browser brings the read of the record to an end
SpecLoadLive == SpecLoad /\ WF_vars(LoadSettles)

\* ================================================================ claims
RemoveSteps == {"removeToy", "removeActiveToy"}

\* the ids of a list of toys and of their buttons
ButtonIds(ts) == UNION {Ids(ts[i].buttons) : i \in DOMAIN ts}
DocButtonIds(ds) == UNION {Ids(DocButtons(ds[i])) : i \in DOMAIN ds}

\* C1: in every reachable state the active id is the id of a collection of the
\* list (stated for the states that still have a collection: the empty list is
\* the matter of C2)
C1_ActiveIdResolves == toys # <<>> => activeToyId \in Ids(toys)

\* C2: in every reachable state the collection list holds at least one
\* collection
C2_AtLeastOneToy == Len(toys) >= 1

\* the toys a successful import step has restored, read off the new list
Restored(doc, after) ==
    SubSeq(after, Len(after) - Len(DocToys(doc)) + 1, Len(after))

\* the ids an import generated, one entry per toy and per button
GeneratedIds(ts) ==
    [i \in DOMAIN ts |-> ts[i].id] \o
    Flat([i \in DOMAIN ts |-> [j \in DOMAIN ts[i].buttons |-> ts[i].buttons[j].id]])

Distinct(s) == \A i, j \in DOMAIN s : i # j => s[i] # s[j]
Range(s) == {s[i] : i \in DOMAIN s}

\* C3: a successful import gives every imported collection and button an id
\* that differs from every id of the file, from every id of currentCollections
\* and from every other id the same import generated
C3_ImportIdsFresh ==
    [][(last'.op = "import" /\ last'.ok) =>
        LET doc == imp[1].content
            cur == imp[1].toys
            new == GeneratedIds(Restored(doc, toys'))
        IN /\ Distinct(new)
           /\ Range(new) \cap (Ids(DocToys(doc)) \cup DocButtonIds(DocToys(doc))) = {}
           /\ Range(new) \cap (Ids(cur) \cup ButtonIds(cur)) = {}]_vars

\* C4: a single-collection import returns the collections it was given
\* unchanged, in order, followed by exactly one new collection, and the active
\* id becomes the id of that new collection
C4_SingleImportAppends ==
    [][(last'.op = "import" /\ last'.arg = "single") =>
        /\ Len(toys') = Len(imp[1].toys) + 1
        /\ SubSeq(toys', 1, Len(imp[1].toys)) = imp[1].toys
        /\ activeToyId' = toys'[Len(toys')].id
        /\ toys'[Len(toys')].id # imp[1].content.toy[1].id
        /\ Len(toys'[Len(toys')].buttons) = Len(DocButtons(imp[1].content.toy[1]))]_vars

\* C4 witness: a single-collection backup was imported into a list of two and
\* the third, new collection is the active one
C4_Witness ==
    /\ last.op = "import" /\ last.arg = "single"
    /\ Len(toys) = 3 /\ activeToyId = toys[3].id

\* C5: a full-backup import replaces the list: the result holds one collection
\* per collection of the file, in file order, and no collection that was in
\* the list before
C5_FullImportReplaces ==
    [][(last'.op = "import" /\ last'.arg = "full") =>
        LET file == IF imp[1].content.toys = None THEN <<>> ELSE imp[1].content.toys[1]
        IN /\ Len(toys') = Len(file)
           /\ \A i \in DOMAIN file :
                /\ toys'[i].name = OrElse(file[i].name, "Restored Toy")
                /\ Len(toys'[i].buttons) = Len(DocButtons(file[i]))
                /\ \A j \in DOMAIN toys'[i].buttons :
                     toys'[i].buttons[j].text = OrElse(DocButtons(file[i])[j].text, "")
           /\ Range(toys') \cap (Range(toys) \cup Range(imp[1].toys)) = {}]_vars

\* C5 witness: a full backup of two collections has replaced the list
C5_Witness ==
    /\ last.op = "import" /\ last.arg = "full"
    /\ Len(toys) = 2 /\ toys[1].name = "Farm" /\ "toy_default" \notin Ids(toys)

\* a document with neither a toy under type single_toy nor a toys array
Unrecognized(doc) ==
    /\ ~(doc.type = "single_toy" /\ doc.toy # None)
    /\ doc.toys = None

\* C6: importing a document with neither a toy (type single_toy) nor a toys
\* array raises the error and leaves the collection list and the active id as
\* they were; an import that raises changes neither
C6_BadImportChangesNothing ==
    [][(last'.op = "import") =>
        /\ Unrecognized(imp[1].content) => ~last'.ok
        /\ ~last'.ok => (toys' = toys /\ activeToyId' = activeToyId /\ blobs' = blobs)]_vars

\* C6 witness: an import has raised the format error on a state of two
\* collections
C6_Witness == last.op = "import" /\ ~last.ok /\ Len(toys) = 2

\* undefined and null both stand for "no value" of an optional field
SameOptional(x, y) == x = y \/ {x, y} \subseteq {Undefined, Null}

SameSettings(a, b) ==
    /\ a.caseColor = b.caseColor
    /\ SameOptional(a.titleColor, b.titleColor)
    /\ SameOptional(a.soundType, b.soundType)
    /\ SameOptional(a.glowType, b.glowType)

\* import(exportAll(state), []) for one outcome of Math.random()
RoundTrip(rnd) ==
    importData(exportAllData([toys |-> toys, activeToyId |-> activeToyId], blobs, {}),
               <<>>, now, rnd, blobs)

\* C7: import(exportAll(state), []) has as many collections, as many buttons
\* per collection in the same order, the same names, settings, texts, colors
\* and text colors, and no id of the original
C7_BackupRoundTrip ==
    \A rnd \in RandomRuns(Len(GeneratedIds(toys)), draws) :
        LET r == RoundTrip(rnd).state
        IN /\ RoundTrip(rnd).ok
           /\ Len(r.toys) = Len(toys)
           /\ \A i \in DOMAIN toys :
                /\ r.toys[i].name = toys[i].name
                /\ SameSettings(r.toys[i].settings, toys[i].settings)
                /\ Len(r.toys[i].buttons) = Len(toys[i].buttons)
                /\ \A j \in DOMAIN toys[i].buttons :
                     /\ r.toys[i].buttons[j].text = toys[i].buttons[j].text
                     /\ r.toys[i].buttons[j].color = toys[i].buttons[j].color
                     /\ SameOptional(r.toys[i].buttons[j].textColor,
                                     toys[i].buttons[j].textColor)
           /\ Range(GeneratedIds(r.toys)) \cap Range(GeneratedIds(toys)) = {}

\* load(save(state)) in a session whose object URLs are B
SavedAndLoaded(B) ==
    loadGlobalState(Some(saveGlobalState([toys |-> toys, activeToyId |-> activeToyId],
                                         blobs, {})), B)

\* the handle h of the loaded state is new in B and refers to the payload the
\* handle g referred to; no handle stays no handle
SamePayload(r, B, h, g) ==
    IF g = 0 THEN h = 0
    ELSE /\ h \notin DOMAIN B /\ h \in DOMAIN r.blobs
         /\ r.blobs[h] = blobs[g]

\* C8: load after save returns the same collections and buttons in the same
\* order with the same ids, names, settings, texts, colors, text colors and
\* active id; a sound or image gets a fresh handle with the original payload
\* and a button without a handle stays without one
C8_SaveLoadRoundTrip ==
    \A B \in {<<>>, blobs} :
        LET r == SavedAndLoaded(B)
            st == r.state[1]
        IN /\ r.state # None
           /\ st.activeToyId = activeToyId
           /\ Len(st.toys) = Len(toys)
           /\ \A i \in DOMAIN toys :
                /\ st.toys[i].id = toys[i].id
                /\ st.toys[i].name = toys[i].name
                /\ st.toys[i].settings = toys[i].settings
                /\ Len(st.toys[i].buttons) = Len(toys[i].buttons)
                /\ \A j \in DOMAIN toys[i].buttons :
                     LET a == st.toys[i].buttons[j]
                         b == toys[i].buttons[j]
                     IN /\ a.id = b.id /\ a.text = b.text /\ a.color = b.color
                        /\ a.textColor = b.textColor
                        /\ SamePayload(r, B, a.audioUrl, b.audioUrl)
                        /\ SamePayload(r, B, a.imageUrl, b.imageUrl)
                        /\ a.audioUrl # 0 /\ a.imageUrl # 0 => a.audioUrl # a.imageUrl

\* C8 witness: a session has loaded the record an earlier session saved, with
\* one button that has a sound and one that has none
C8_Witness ==
    /\ last.op = "load" /\ last.ok
    /\ \E i \in DOMAIN toys : \E j, k \in DOMAIN toys[i].buttons :
          /\ toys[i].buttons[j].audioUrl # 0
          /\ blobs[toys[i].buttons[j].audioUrl] = WavBlob
          /\ toys[i].buttons[k].audioUrl = 0

\* C9: removeToy on a list of exactly one collection changes neither the list
\* nor the active id
C9_LastToyStays ==
    [][(last'.op \in RemoveSteps /\ Len(toys) = 1) =>
        (toys' = toys /\ activeToyId' = activeToyId)]_vars

\* C9 witness: removeToy was called on the only collection and refused
C9_Witness == last.op = "removeToy" /\ ~last.ok /\ Len(toys) = 1

LoadedFromDb == loadGlobalState(db, <<>>).state

\* C11: for every record a save has written, load returns either nothing or a
\* state whose collection list is not empty and whose active id is the id of
\* one of the returned collections
C11_LoadedStateValid ==
    LoadedFromDb # None =>
        /\ Len(LoadedFromDb[1].toys) >= 1
        /\ LoadedFromDb[1].activeToyId \in Ids(LoadedFromDb[1].toys)

\* what save or export must hold for the asset behind the handle h: nothing
\* for no handle and for a handle whose fetch fails, else the payload
PayloadOf(B, h) == IF h = 0 \/ h \in unfetchable THEN None ELSE Some(B[h])

\* a stored or exported button list keeps the scalar fields of every button
SameScalars(out, btns) ==
    /\ Len(out) = Len(btns)
    /\ \A j \in DOMAIN btns :
          /\ out[j].id = btns[j].id /\ out[j].text = btns[j].text
          /\ out[j].color = btns[j].color /\ out[j].textColor = btns[j].textColor

\* the record s is what save must write for the toys ts
SavedIntact(s, ts, B) ==
    /\ Len(s.toys) = Len(ts)
    /\ \A i \in DOMAIN ts :
          /\ s.toys[i].id = ts[i].id /\ s.toys[i].name = ts[i].name
          /\ s.toys[i].settings = ts[i].settings
          /\ SameScalars(s.toys[i].buttons, ts[i].buttons)
          /\ \A j \in DOMAIN ts[i].buttons :
                /\ s.toys[i].buttons[j].audioBlob = PayloadOf(B, ts[i].buttons[j].audioUrl)
                /\ s.toys[i].buttons[j].imageBlob = PayloadOf(B, ts[i].buttons[j].imageUrl)

\* the data URL an export must hold for the handle h
DataUrlOf(B, h) ==
    IF PayloadOf(B, h) = None THEN None
    ELSE Some([mime |-> B[h].type, b64 |-> B64Enc(B[h].data)])

\* the exported toy e is what export must write for the toy t
ExportedIntact(e, t, B) ==
    /\ e.id = t.id /\ e.name = t.name /\ e.settings = Some(t.settings)
    /\ SameScalars(e.buttons[1], t.buttons)
    /\ \A j \in DOMAIN t.buttons :
          /\ e.buttons[1][j].audioBase64 = DataUrlOf(B, t.buttons[j].audioUrl)
          /\ e.buttons[1][j].imageBase64 = DataUrlOf(B, t.buttons[j].imageUrl)

\* C12: in save and in export a failed fetch of one sound or image leaves that
\* asset's payload null and nothing else: the save is started and the export
\* is delivered, and every other button and asset of every collection is
\* written with its scalar fields and its payload
C12_FetchFailureIsolated ==
    [][/\ \A s \in saves' \ saves : SavedIntact(s, toys', blobs')
       /\ (isLoaded' /\ toys' # <<>> /\ <<toys', activeToyId'>> # <<toys, activeToyId>>)
             => \E s \in saves' : SavedIntact(s, toys', blobs')
       /\ last'.op = "export" =>
             /\ download' # None
             /\ IF last'.arg = "full"
                THEN /\ Len(download'[1].toys[1]) = Len(toys)
                     /\ \A i \in DOMAIN toys :
                           ExportedIntact(download'[1].toys[1][i], toys[i], blobs)
                ELSE \E i \in DOMAIN toys :
                           ExportedIntact(download'[1].toy[1], toys[i], blobs)]_vars

\* C12 witness: with the fetch of the imported sound failing, a save and a
\* full export were made that hold no payload for the sound and the payload
\* of the image of the other button
C12_Witness ==
    /\ last.op = "export" /\ last.arg = "full" /\ unfetchable # {}
    /\ \E s \in saves, i \in DOMAIN toys : \E j, k \in DOMAIN toys[i].buttons :
          /\ SavedIntact(s, toys, blobs)
          /\ toys[i].buttons[j].audioUrl \in unfetchable
          /\ s.toys[i].buttons[j].audioBlob = None
          /\ s.toys[i].buttons[k].imageBlob # None
          /\ download[1].toys[1][i].buttons[1][j].audioBase64 = None
          /\ download[1].toys[1][i].buttons[1][k].imageBase64 # None

\* C13: once no sync is in flight, the cached buffer and the last-synced
\* handle of a button are those of its final handle (stated for the buttons
\* whose final handle decodes and that have an entry): a decode of an older
\* handle that finishes later has not overwritten the newer result
C13_FinalHandleCached ==
    syncs = <<>> =>
        \A j \in DOMAIN buttons :
            (/\ buttons[j].audioUrl # 0
             /\ Decodable(blobs[buttons[j].audioUrl])
             /\ buttons[j].id \in DOMAIN lastUrls)
            => /\ lastUrls[buttons[j].id] = buttons[j].audioUrl
               /\ audioBuffers[buttons[j].id] = decodeAudio(blobs[buttons[j].audioUrl])

\* C14: a run of the sync over buttons that have not changed since the last
\* completed sync starts no fetch and no decode and leaves the cache and the
\* last-synced handles as they are, also when an earlier decode has failed
C14_ResyncIdempotent ==
    [][(last'.op = "color" /\ isLoaded /\ buttons' = buttons /\ syncs = <<>>) =>
          (syncs' = <<>> /\ audioBuffers' = audioBuffers /\ lastUrls' = lastUrls)]_vars

\* C15: whenever no sync is in flight, the cache and the last-synced record
\* have an entry for a button id only if that button is in the active
\* collection and has a sound handle
C15_CacheOnlyLiveSounds ==
    syncs = <<>> =>
        \A id \in DOMAIN audioBuffers \cup DOMAIN lastUrls :
            \E j \in DOMAIN buttons : buttons[j].id = id /\ buttons[j].audioUrl # 0

\* the sync loop has nothing to do for the button b: no handle and no entry,
\* or the handle it has is the handle last synced
Settled(b, urls) ==
    IF b.audioUrl = 0 THEN b.id \notin DOMAIN urls ELSE Get(urls, b.id) = b.audioUrl

\* C16: when the fetch or the decode for one button of a sync run fails, that
\* button gets no new cache entry and the run goes on: it settles every later
\* button up to the next one it has to fetch, which it waits for, and a
\* button whose bytes decode is cached when its turn comes
C16_DecodeFailureIsolated ==
    [][\A k \in DOMAIN syncs :
          (syncResume(k) /\ UNCHANGED <<envVars, recVars, jobVars>>) =>
             LET s == syncs[k]
                 b == s.btns[s.at]
                 ok == b.audioUrl \notin unfetchable /\ Decodable(blobs[b.audioUrl])
                 q == IF Len(syncs') = Len(syncs) THEN syncs'[k].at ELSE Len(s.btns) + 1
             IN /\ ok => /\ Get(lastUrls', b.id) = b.audioUrl
                         /\ Get(audioBuffers', b.id) = decodeAudio(blobs[b.audioUrl])
                /\ ~ok => /\ Get(lastUrls', b.id) = Get(lastUrls, b.id)
                          /\ Get(audioBuffers', b.id) = Get(audioBuffers, b.id)
                /\ q > s.at
                /\ \A p \in (s.at + 1)..(q - 1) : Settled(s.btns[p], lastUrls')
                /\ q <= Len(s.btns) =>
                      /\ syncs'[k].btns = s.btns
                      /\ s.btns[q].audioUrl # 0 /\ ~Settled(s.btns[q], lastUrls')]_vars

\* C16 witness: all syncs are over; a button whose file is no audio has no
\* cache entry, and a later button of the list, decoded last, has its buffer
C16_Witness ==
    /\ last.op = "decoded" /\ last.ok /\ syncs = <<>>
    /\ \E j, k \in DOMAIN buttons :
          /\ j < k
          /\ buttons[j].audioUrl # 0 /\ ~Decodable(blobs[buttons[j].audioUrl])
          /\ buttons[j].id \notin DOMAIN audioBuffers
          /\ buttons[k].id = last.arg /\ buttons[k].audioUrl # 0
          /\ Get(lastUrls, buttons[k].id) = buttons[k].audioUrl
          /\ Get(audioBuffers, buttons[k].id) = decodeAudio(blobs[buttons[k].audioUrl])

\* the capture streams whose tracks are live
OpenStreams == {r \in DOMAIN recorders : recorders[r].open}

\* C17: at any time at most one capture stream is open, and every open stream
\* can still be stopped: its recorder is the one stopRecording reaches, or
\* its stop event is on the way
C17_OneCaptureSession ==
    /\ Cardinality(OpenStreams) <= 1
    /\ \A r \in OpenStreams : r = mediaRecorderRef \/ recorders[r].stopEvent

\* stopRecording has stopped recorder r and its stop event is not yet delivered
StopCalled(r) == r \in DOMAIN recorders /\ recorders[r].stopEvent

\* the stop of recorder r is complete: indicator cleared, tracks stopped, and
\* the chunks, when there were any, in the blob of a pending recording
StopDelivered(r) ==
    /\ r \in DOMAIN recorders /\ ~recorders[r].stopEvent
    /\ recorders[r].state = "inactive" /\ ~recorders[r].open
    /\ recordingId = Null /\ audioLevel = 0
    /\ recorders[r].captured =>
          /\ pendingRecording # None
          /\ pendingRecording[1].id = recorders[r].id
          /\ \E c \in DOMAIN pendingRecording[1].blob.data :
                pendingRecording[1].blob.data[c] = r

\* C18: after stopRecording on an active capture session, eventually
\* recordingId is null and the level 0, every track of the stream is stopped,
\* and the captured chunks, if any, are one blob in a pending recording
C18_StopDelivers == \A r \in 1..MaxTaps : StopCalled(r) ~> StopDelivered(r)

\* C18 witness: a recording was stopped and its data is the pending recording
C18_Witness ==
    /\ last.op = "onstop" /\ last.ok
    /\ \E r \in DOMAIN recorders : recorders[r].captured /\ StopDelivered(r)

\* C19: stopRecording with no recorder ever started, or with the recorder
\* already inactive, shows no error, creates no pending recording and changes
\* no collection, button or recorder
C19_StopWithoutRecording ==
    [][(/\ last'.op = "stopRecording"
        /\ (mediaRecorderRef = 0 \/ recorders[mediaRecorderRef].state = "inactive"))
       => /\ toast' = toast
          /\ pendingRecording' = pendingRecording
          /\ toys' = toys /\ activeToyId' = activeToyId /\ blobs' = blobs
          /\ recorders' = recorders /\ audioChunksRef' = audioChunksRef
          /\ recordingId' = Null /\ audioLevel' = 0]_vars

\* C19 witness: stopRecording was called again on a recorder already stopped
C19_Witness ==
    /\ last.op = "stopRecording" /\ ~last.ok
    /\ mediaRecorderRef # 0 /\ recorders[mediaRecorderRef].state = "inactive"

LoudIndices(buffer) == UNION {Loud(buffer, c) : c \in DOMAIN buffer.channels}

\* out holds the samples lo .. hi of buffer, each channel scaled by one factor
Covers(out, buffer, lo, hi) ==
    /\ DOMAIN out.channels = DOMAIN buffer.channels
    /\ \A c \in DOMAIN out.channels : Len(out.channels[c]) = hi - lo + 1
    /\ \A c, d \in DOMAIN out.channels : \A k, m \in 1..(hi - lo + 1) :
          out.channels[c][k] * buffer.channels[d][lo + m]
            = out.channels[d][m] * buffer.channels[c][lo + k]
    /\ \A c \in DOMAIN out.channels : \A k \in 1..(hi - lo + 1) :
          (out.channels[c][k] > 0) = (buffer.channels[c][lo + k] > 0)

\* C21: trimAndNormalize hands back its input exactly when no sample of any
\* channel is above the threshold; when at least one is, a single one
\* included, the result is the window from the first such index minus the pad
\* to the last such index plus the pad, clamped to the buffer, over all channels
C21_TrimWindow ==
    trimmed # None =>
        LET in == trimmed[1].input
            out == trimmed[1].output
            loud == LoudIndices(in)
        IN /\ out.same <=> loud = {}
           /\ loud # {} =>
                 Covers(out.buffer, in, Max({0, Min(loud) - Pad(in)}),
                        Min({Length(in) - 1, Max(loud) + Pad(in)}))

\* the largest magnitude among the samples of a buffer
PeakOf(channels) ==
    Max({0} \cup {Abs(channels[c][k]) : c \in DOMAIN channels, k \in DOMAIN channels[1]})

\* the samples lo .. hi (counted from 0) of every channel
Cut(channels, lo, hi) == [c \in DOMAIN channels |-> SubSeq(channels[c], lo + 1, hi + 1)]

\* C22: the samples of the trimmed window are scaled by 0.95 / peak when the
\* window's peak is above 0 and below 0.95, the new peak being 0.95, and are
\* copied as they are when the peak is 0.95 or more; no sample gets smaller
C22_Normalize ==
    (trimmed # None /\ ~trimmed[1].output.same) =>
        LET in == trimmed[1].input
            out == trimmed[1].output.buffer
            win == Cut(in.channels, WindowStart(in), WindowEnd(in))
            peak == PeakOf(win)
        IN /\ DOMAIN out.channels = DOMAIN win
           /\ \A c \in DOMAIN win :
                 /\ DOMAIN out.channels[c] = DOMAIN win[c]
                 /\ \A k \in DOMAIN win[c] :
                       /\ (peak > 0 /\ peak < TargetPeak * in.den) =>
                             out.channels[c][k] * peak * in.den
                               = win[c][k] * TargetPeak * in.den * out.den
                       /\ peak >= TargetPeak * in.den =>
                             out.channels[c][k] * in.den = win[c][k] * out.den
                       /\ Abs(out.channels[c][k]) * in.den >= Abs(win[c][k]) * out.den
           /\ (peak > 0 /\ peak < TargetPeak * in.den) =>
                 PeakOf(out.channels) = TargetPeak * out.den

\* a window with the peak 0.5 has been scaled, its silent samples staying 0
C22_Witness ==
    /\ trimmed # None /\ ~trimmed[1].output.same
    /\ last.op = "processed" /\ last.ok
    /\ PeakOf(Cut(trimmed[1].input.channels, WindowStart(trimmed[1].input),
                  WindowEnd(trimmed[1].input))) = 50
    /\ PeakOf(trimmed[1].output.buffer.channels) = TargetPeak * trimmed[1].output.buffer.den
    /\ \E k \in DOMAIN trimmed[1].output.buffer.channels[1] :
          trimmed[1].output.buffer.channels[1][k] = 0

\* the sound handles of the buttons of every toy
SoundHandles(ts) == [i \in DOMAIN ts |-> [j \in DOMAIN ts[i].buttons |-> ts[i].buttons[j].audioUrl]]

\* C30: a finished recording is held as the pending recording and changes no
\* button; a button's sound handle changes only in the step in which
\* savePendingRecording succeeds, which also clears the pending recording;
\* discarding the recording, or a failure while it is decoded or processed,
\* leaves every button as it is
C30_RecordingHeldUntilSaved ==
    [][/\ (last'.op = "onstop" /\ last' # last) =>
             /\ toys' = toys
             /\ last'.ok => (pendingRecording' # None
                               /\ pendingRecording'[1].id = last'.arg
                               /\ pendingRecording'[1].url = Len(blobs'))
       /\ SoundHandles(toys') # SoundHandles(toys) =>
             (last'.op = "processed" /\ last'.ok /\ processing # None
                /\ pendingRecording' = None)
       /\ (processing # None /\ processing' = None /\ last'.op = "processed" /\ last'.ok) =>
             /\ pendingRecording' = None
             /\ toys' = updateButton(toys, processing[1].activeToyId, processing[1].buttons,
                                     processing[1].id, "audioUrl", Len(blobs'))
       /\ (processing # None /\ processing' = None /\ ~last'.ok) =>
             (toys' = toys /\ pendingRecording' = pendingRecording)
       /\ (pendingRecording # None /\ last'.op = "discard" /\ ops' = ops + 1) =>
             (toys' = toys /\ pendingRecording' = None)]_vars

\* a recording was made and saved: its button has the handle of the new sound
C30_Witness ==
    /\ last.op = "processed" /\ last.ok /\ pendingRecording = None
    /\ \E j \in DOMAIN buttons :
          buttons[j].id = last.arg /\ buttons[j].audioUrl = Len(blobs)
                                   /\ blobs[Len(blobs)].type = "audio/wav"

\* the shown buttons with the field of every button of the id set to value
WithField(s, id, field, value) ==
    [j \in DOMAIN s |-> IF s[j].id = id THEN [s[j] EXCEPT ![field] = value] ELSE s[j]]

\* C23: in every reachable state, right after a full-backup import included,
\* addButton adds exactly one button to the collection that is displayed, and
\* updateButton, removeButton, duplicateButton and the reorder take effect on
\* the displayed collection: no edit is dropped
C23_EditsReachShownToy ==
    [][/\ addButton =>
             /\ Len(buttons') = Len(buttons) + 1
             /\ SubSeq(buttons', 1, Len(buttons)) = buttons
             /\ buttons'[Len(buttons')].id = last'.arg
       /\ \A id \in Ids(buttons) :
             /\ \A c \in KeyColors :
                   pickColor(id, c) => buttons' = WithField(buttons, id, "color", c)
             /\ \A text \in KeyTexts :
                   editText(id, text) => buttons' = WithField(buttons, id, "text", text)
             /\ removeButton(id) => buttons' = Filter(buttons, id)
             /\ duplicateButton(id) =>
                   /\ Len(buttons') = Len(buttons) + 1
                   /\ Filter(buttons', "btn_" \o ToString(now))
                        = Filter(buttons, "btn_" \o ToString(now))
             /\ \A over \in Ids(buttons) :
                   handleDragEnd(id, over) =>
                       /\ Len(buttons') = Len(buttons)
                       /\ buttons'[IndexOf(buttons, over)] = buttons[IndexOf(buttons, id)]]_vars

\* C24: saves may overlap; once every save that was started has completed,
\* the record is the stored form of the live state, so that a save of an older
\* state that ends late does not overwrite the record of a newer one
C24_LatestStateStored ==
    (isLoaded /\ ~Crashed /\ saves = {}) =>
        db = Some(saveGlobalState([toys |-> toys, activeToyId |-> activeToyId], blobs,
                                  unfetchable))

\* C25: once deleteAudio has been applied to a button and every cache sync in
\* flight has ended, the cache holds no buffer for the button and a press on
\* it plays nothing, however the deletion falls between the steps of a decode
\* of the button's earlier handle
C25_DeletedSoundIsSilent ==
    syncs = <<>> =>
        \A j \in DOMAIN buttons :
            buttons[j].audioUrl = 0 =>
                (Get(audioBuffers, buttons[j].id) = 0 /\ playSound(buttons[j]) = "silent")

\* the toys after differ from the toys before in nothing but the picture
\* handle of the buttons with the id
OnlyImageChanged(before, after, id) ==
    /\ DOMAIN after = DOMAIN before
    /\ \A i \in DOMAIN before :
          /\ [after[i] EXCEPT !.buttons = before[i].buttons] = before[i]
          /\ DOMAIN after[i].buttons = DOMAIN before[i].buttons
          /\ \A j \in DOMAIN before[i].buttons :
                \/ after[i].buttons[j] = before[i].buttons[j]
                \/ /\ before[i].buttons[j].id = id
                   /\ after[i].buttons[j]
                        = [before[i].buttons[j] EXCEPT !.imageUrl = after[i].buttons[j].imageUrl]

\* C26: an edit of the active collection (text, colour, add, remove, reorder)
\* made between the start of an upload of a picture and its completion is
\* still there after the completion has set the picture: the completion
\* changes the picture handle of its button and nothing else
C26_ImageUploadKeepsEdits ==
    [][(last'.op = "imageDone" /\ last'.ok /\ Len(imageJobs') < Len(imageJobs)) =>
          OnlyImageChanged(toys, toys', last'.arg)]_vars

\* C27: whatever the initial load gives (a record, no record, a failed read),
\* the app gets to the loaded state, from which on changes are saved and the
\* cache is synced
C27_LoadCompletes == (~isLoaded) ~> isLoaded

\* C28: before the initial load has completed no save and no cache sync is
\* started and the record is not written; the load of a record puts the
\* record's toys in place of the built-in ones, and the save it starts writes
\* the record back as it was; with no record the toys stay as they are
C28_NothingBeforeLoad ==
    [][/\ ~isLoaded' =>
             (saves' = {} /\ syncs' = <<>> /\ audioBuffers' = NoEntries /\ db' = db)
       /\ db' # db => (isLoaded /\ db' # None /\ db'[1] \in saves)
       /\ (~isLoaded /\ isLoaded') =>
             IF db # None /\ Len(db[1].toys) > 0
             THEN /\ toys' = LoadedToys(db[1].toys, blobs)
                  /\ activeToyId' = db[1].activeToyId
                  /\ saves' = {db[1]}
             ELSE /\ toys' = toys /\ activeToyId' = activeToyId
                  /\ saves' = {saveGlobalState([toys |-> toys, activeToyId |-> activeToyId],
                                               blobs, unfetchable)}]_vars

\* a session has loaded a record that differs from the built-in toys
C28_Witness ==
    /\ last = Step("load", "record", TRUE) /\ isLoaded
    /\ db # None /\ saves = {db[1]}
    /\ toys # DefaultToys
    /\ \E j \in DOMAIN buttons : buttons[j].audioUrl # 0

\* C29: in every reachable state the ids of the collections differ from each
\* other and, within each collection, the ids of the buttons differ from each
\* other, whatever addToy, addButton, duplicateButton and imports were made,
\* two of them within one millisecond of the clock included
C29_IdsDistinct ==
    /\ Distinct([i \in DOMAIN toys |-> toys[i].id])
    /\ \A i \in DOMAIN toys :
          Distinct([j \in DOMAIN toys[i].buttons |-> toys[i].buttons[j].id])

====
